---- MODULE Spec2Model ----
(***************************************************************************)
(* Model of the fly_app resource of terraform-provider-fly: the secrets    *)
(* differ, the secret reconciler (setSecrets / getSecretComputedValues),   *)
(* the drift detector (updateSecretFromApi), the conditional freeze plan   *)
(* modifier (UseStateForUnknownIf) and the Create / Read / Update / Delete *)
(* handlers, run against a model of the remote secret store.               *)
(***************************************************************************)
EXTENDS Integers, Sequences, FiniteSets, TLC

(* ---------------------------- bounds ----------------------------------- *)

\* the remote clock stops here; it ticks with every write to the secret store
MaxClock == 3

\* the remote clock stops here when one configuration is applied again and again
MaxLiveClock == 4

\* ticks of the remote clock that fall into one second of an RFC3339 string
TicksPerSecond == 2

Keys == {"A", "B"}
Values == {"1", "2"}
DefaultOrg == "org1"
\* the name and org of a configuration; a null org stands for the default org
Headers == {<<"app1", "null">>, <<"app1", "org2">>, <<"app2", "null">>}

(* ------------------------ attribute values ----------------------------- *)

\* types.String has three conditions: null, unknown, known(value)
Null == "null"
Unknown == "unknown"

IsNull(v) == v = Null
IsUnknown(v) == v = Unknown

\* types.String.ValueString: the empty string for null and unknown
ValueString(v) == IF v = Null \/ v = Unknown THEN "" ELSE v

\* types.String.Equal: same condition and, when known, the same string
Equal(a, b) == a = b

\* time.Time.Format(time.RFC3339): the sub-second part is dropped
FormatRFC3339(t) == "T" \o ToString(t \div TicksPerSecond)

\* the store's private hash of a secret value
Digest(v) == "d" \o v

EmptyMap == [k \in {} |-> Null]
Restrict(f, S) == [k \in S |-> f[k]]
Merge(f, g) == [k \in (DOMAIN f) \union (DOMAIN g) |-> IF k \in DOMAIN g THEN g[k] ELSE f[k]]

appSecret(value, digest, createdAt) == [value |-> value, digest |-> digest, createdAt |-> createdAt]

\* the resource is absent from tracked state
NoState == [exists |-> FALSE, name |-> Null, org |-> Null, secrets |-> EmptyMap]
NoPlan == [valid |-> FALSE, name |-> Null, org |-> Null, secrets |-> EmptyMap, proposed |-> EmptyMap]
NoApp == [exists |-> FALSE, name |-> "", org |-> ""]

\* an error returned by a remote call
NoErr == [kind |-> "none", msgs |-> <<>>]
GqlErr(msgs) == [kind |-> "gql", msgs |-> msgs]
TransportErr == [kind |-> "transport", msgs |-> <<>>]

MsgNoChange == "No change detected"
MsgNotFound == "Could not resolve "
MsgOther == "remote error"

\* faults a remote call can suffer independently of the store's content
Faults == {"none", "transport", "gql1", "gql2"}
FaultErr(fault) ==
    CASE fault = "transport" -> TransportErr
      [] fault = "gql1" -> GqlErr(<<MsgOther>>)
      [] fault = "gql2" -> GqlErr(<<MsgNoChange, MsgOther>>)
      [] OTHER -> NoErr

Call(api, app, keys, values) == [api |-> api, app |-> app, keys |-> keys, values |-> values]

VARIABLES
    remoteApp,   \* the app held by the control plane
    remote,      \* the app's secrets in the remote store: name -> [value, digest, createdAt]
    now,         \* the remote clock, in ticks
    state,       \* tracked (observed) state of the fly_app resource
    config,      \* the declared configuration
    op,          \* the last lifecycle operation: its inputs, remote calls and diagnostics
    entities,    \* the volumes, addresses and certificates held by the control plane
    tracked,     \* tracked state of the volume, ip or cert resource the host works on
    cop,         \* the last lifecycle operation on that resource
    secret,      \* tracked state of the fly_app_secret resource
    sop          \* the last lifecycle operation on that resource

childVars == <<entities, tracked, cop>>
secretVars == <<secret, sop>>
vars == <<remoteApp, remote, now, state, config, op, entities, tracked, cop, secret, sop>>

\* no volume, ip or cert resource is tracked
NoTracked == [exists |-> FALSE, kind |-> Null, id |-> Null, app |-> Null, key |-> Null, detail |-> Null]
NoChildOp == [kind |-> "none", resource |-> Null, prior |-> NoTracked, plan |-> NoTracked,
              calls |-> <<>>, errors |-> {}, fault |-> "none", afterImport |-> FALSE]

\* no fly_app_secret resource is tracked
NoSecret == [exists |-> FALSE, appId |-> Null, id |-> Null, name |-> Null, value |-> Null,
             digest |-> Null, createdAt |-> Null]
NoSecretOp == [kind |-> "none", prior |-> NoSecret, plan |-> NoSecret, calls |-> <<>>, errors |-> {},
               fault |-> "none", failed |-> FALSE, fetched |-> FALSE, panicked |-> FALSE,
               snapshot |-> EmptyMap]

(* --------------------------- remote store ------------------------------ *)

RemoteHasApp(app, name) == app.exists /\ app.name = name

\* the app fragment a query returns: name, org slug and the complete secret list
AppFragment(app, secrets) == [name |-> app.name, org |-> app.org, secrets |-> secrets]
EmptyFragment == [name |-> "", org |-> "", secrets |-> EmptyMap]

\* setSecrets mutation with ReplaceAll false: one atomic batch; an error and no
\* change when every submitted value is already stored
SetSecretsApi(app, secrets, clock, appName, inputs, fault) ==
    IF fault # "none"
    THEN [err |-> FaultErr(fault), secrets |-> secrets, now |-> clock, app |-> EmptyFragment]
    ELSE IF ~RemoteHasApp(app, appName)
    THEN [err |-> GqlErr(<<MsgNotFound>>), secrets |-> secrets, now |-> clock, app |-> EmptyFragment]
    ELSE IF \A k \in DOMAIN inputs : k \in DOMAIN secrets /\ secrets[k].value = inputs[k]
    THEN [err |-> GqlErr(<<MsgNoChange>>), secrets |-> secrets, now |-> clock, app |-> EmptyFragment]
    ELSE LET written == [k \in DOMAIN inputs |->
                            [value |-> inputs[k], digest |-> Digest(inputs[k]), createdAt |-> clock + 1]]
             stored == Merge(secrets, written)
         IN [err |-> NoErr, secrets |-> stored, now |-> clock + 1, app |-> AppFragment(app, stored)]

\* unsetSecrets mutation: one atomic batch
UnsetSecretsApi(app, secrets, appName, keys, fault) ==
    IF fault # "none"
    THEN [err |-> FaultErr(fault), secrets |-> secrets]
    ELSE IF ~RemoteHasApp(app, appName)
    THEN [err |-> GqlErr(<<MsgNotFound>>), secrets |-> secrets]
    ELSE [err |-> NoErr, secrets |-> Restrict(secrets, (DOMAIN secrets) \ keys)]

\* GetSecrets query
GetSecretsApi(app, secrets, appName, fault) ==
    IF fault # "none"
    THEN [err |-> FaultErr(fault), app |-> EmptyFragment]
    ELSE IF ~RemoteHasApp(app, appName)
    THEN [err |-> GqlErr(<<MsgNotFound>>), app |-> EmptyFragment]
    ELSE [err |-> NoErr, app |-> AppFragment(app, secrets)]

\* GetApp query
GetAppApi(app, secrets, appName, fault) ==
    IF fault # "none"
    THEN [err |-> FaultErr(fault), app |-> EmptyFragment]
    ELSE IF ~RemoteHasApp(app, appName)
    THEN [err |-> GqlErr(<<MsgNotFound>>), app |-> EmptyFragment]
    ELSE [err |-> NoErr, app |-> AppFragment(app, secrets)]

\* CreateApp mutation: fails when the name is taken
CreateAppApi(app, name, org, fault) ==
    IF fault # "none"
    THEN [err |-> FaultErr(fault), app |-> app]
    ELSE IF app.exists
    THEN [err |-> GqlErr(<<MsgOther>>), app |-> app]
    ELSE [err |-> NoErr, app |-> [exists |-> TRUE, name |-> name, org |-> org]]

\* DeleteApp mutation: the app's secrets go with it
DeleteAppApi(app, secrets, name, fault) ==
    IF fault # "none"
    THEN [err |-> FaultErr(fault), app |-> app, secrets |-> secrets]
    ELSE IF ~RemoteHasApp(app, name)
    THEN [err |-> GqlErr(<<MsgNotFound>>), app |-> app, secrets |-> secrets]
    ELSE [err |-> NoErr, app |-> NoApp, secrets |-> EmptyMap]

(* ----------------------- conditional freeze ----------------------------- *)

\* secretValueUnchanged: the "value" attribute next to the modified attribute,
\* read from state and from the configuration, compared with types.String.Equal
secretValueUnchanged(stateValue, configValue) == Equal(stateValue, configValue)

\* the unconditional UseStateForUnknown: the condition is not consulted
PlanModifyStringUnconditional(stateValue, planValue, configValue, condition) ==
    IF IsNull(stateValue) THEN planValue
    ELSE IF ~IsUnknown(planValue) THEN planValue
    ELSE IF IsUnknown(configValue) THEN planValue
    ELSE stateValue

\* useStateForUnknownIfModifier.PlanModifyString: stateValue, planValue and
\* configValue are those of the modified (computed) attribute
PlanModifyString(stateValue, planValue, configValue, condition) ==
    IF IsNull(stateValue) THEN planValue
    ELSE IF ~IsUnknown(planValue) THEN planValue
    ELSE IF IsUnknown(configValue) THEN planValue
    ELSE IF ~condition THEN planValue
    ELSE stateValue

\* the attribute of a secret in prior state, null when the secret is not there
StateAttr(st, k, attr) == IF st.exists /\ k \in DOMAIN st.secrets THEN st.secrets[k][attr] ELSE Null

\* the proposed new state: configured values, computed attributes carried over
\* from prior state
ProposedNew(cfg, st) ==
    [name |-> cfg.name,
     org |-> IF IsNull(cfg.org) THEN (IF st.exists THEN st.org ELSE Null) ELSE cfg.org,
     secrets |-> [k \in DOMAIN cfg.secrets |->
                    appSecret(cfg.secrets[k], StateAttr(st, k, "digest"), StateAttr(st, k, "createdAt"))]]

\* whether the proposed new state differs from prior state
HasDiff(cfg, st) ==
    LET p == ProposedNew(cfg, st)
    IN ~st.exists \/ p.name # st.name \/ p.org # st.org \/ p.secrets # st.secrets

\* the schema of fly_app: name is required, org is optional and computed, the
\* digest and created_at of a secret are computed and carry the freeze modifier;
\* computed attributes without a configured value are unknown in a plan that
\* has a diff, before the plan modifiers run
MarkedUnknown(cfg, st) ==
    LET p == ProposedNew(cfg, st)
    IN IF ~HasDiff(cfg, st) THEN p
       ELSE [p EXCEPT !.org = IF IsNull(cfg.org) THEN Unknown ELSE cfg.org,
                      !.secrets = [k \in DOMAIN cfg.secrets |-> appSecret(cfg.secrets[k], Unknown, Unknown)]]

\* the plan of the fly_app resource for configuration cfg and prior state st;
\* a computed-only attribute has a null configuration value
PlanResourceChange(cfg, st) ==
    LET m == MarkedUnknown(cfg, st)
        frozen(k, attr) == PlanModifyString(StateAttr(st, k, attr), m.secrets[k][attr], Null,
                                            secretValueUnchanged(StateAttr(st, k, "value"), cfg.secrets[k]))
    IN [valid |-> TRUE, name |-> m.name, org |-> m.org,
        secrets |-> [k \in DOMAIN cfg.secrets |->
                        appSecret(cfg.secrets[k], frozen(k, "digest"), frozen(k, "createdAt"))],
        proposed |-> m.secrets]

(* --------------------------- drift detector ---------------------------- *)

\* flyAppResourceData.updateFromApi
updateFromApi(d, a) == [d EXCEPT !.name = a.name, !.org = a.org]

\* a drift detector that refreshes digest and created-at and keeps the value
updateSecretFromApiKeepValue(secrets, name, a) ==
    IF name \in DOMAIN a.secrets
    THEN LET as == a.secrets[name]
             s == secrets[name]
         IN IF as.digest # ValueString(s.digest) \/ FormatRFC3339(as.createdAt) # ValueString(s.createdAt)
            THEN [secrets EXCEPT ![name] = appSecret(s.value, as.digest, FormatRFC3339(as.createdAt))]
            ELSE secrets
    ELSE Restrict(secrets, (DOMAIN secrets) \ {name})

\* a drift detector that looks at the digest only
updateSecretFromApiDigestOnly(secrets, name, a) ==
    IF name \in DOMAIN a.secrets
    THEN LET as == a.secrets[name]
             s == secrets[name]
         IN IF as.digest # ValueString(s.digest)
            THEN [secrets EXCEPT ![name] = appSecret(Unknown, as.digest, FormatRFC3339(as.createdAt))]
            ELSE secrets
    ELSE Restrict(secrets, (DOMAIN secrets) \ {name})

\* a drift detector that keeps a secret the remote store no longer has
updateSecretFromApiKeepMissing(secrets, name, a) ==
    IF name \in DOMAIN a.secrets
    THEN LET as == a.secrets[name]
             s == secrets[name]
         IN IF as.digest # ValueString(s.digest) \/ FormatRFC3339(as.createdAt) # ValueString(s.createdAt)
            THEN [secrets EXCEPT ![name] = appSecret(Unknown, as.digest, FormatRFC3339(as.createdAt))]
            ELSE secrets
    ELSE secrets

\* flyAppResourceData.updateSecretFromApi on the secret map: the entry of
\* `name` after the refresh, or its removal
updateSecretFromApi(secrets, name, a) ==
    IF name \in DOMAIN a.secrets
    THEN LET as == a.secrets[name]
             s == secrets[name]
         IN IF as.digest # ValueString(s.digest) \/ FormatRFC3339(as.createdAt) # ValueString(s.createdAt)
            THEN [secrets EXCEPT ![name] = appSecret(Unknown, as.digest, FormatRFC3339(as.createdAt))]
            ELSE secrets
    ELSE Restrict(secrets, (DOMAIN secrets) \ {name})

\* flyAppResourceData.updateSecretsFromApi: every key of the map, one by one
RECURSIVE updateSecretsLoop(_, _, _)
updateSecretsLoop(secrets, todo, a) ==
    IF todo = {} THEN secrets
    ELSE LET k == CHOOSE x \in todo : TRUE
         IN updateSecretsLoop(updateSecretFromApi(secrets, k, a), todo \ {k}, a)

updateSecretsFromApi(d, a) == [d EXCEPT !.secrets = updateSecretsLoop(d.secrets, DOMAIN d.secrets, a)]

(* -------------------------- secret reconciler -------------------------- *)

\* errors.As(err, &errList) && len(errList) == 1 &&
\* strings.Contains(errList[0].Message, "No change detected")
IsNoChange(err) == err.kind = "gql" /\ Len(err.msgs) = 1 /\ err.msgs[1] = MsgNoChange

\* a compensating read that fills the digest and leaves created_at as planned
getSecretComputedValuesDigestOnly(app, stored, appName, secrets, fault) ==
    LET r == GetSecretsApi(app, stored, appName, fault)
    IN [errors |-> IF r.err.kind # "none" THEN {"GetSecrets failed"} ELSE {},
        calls |-> <<Call("GetSecrets", appName, {}, EmptyMap)>>,
        snapshot |-> r.app.secrets,
        secrets |-> [k \in DOMAIN secrets |->
                        IF k \in DOMAIN r.app.secrets
                        THEN appSecret(secrets[k].value, r.app.secrets[k].digest, secrets[k].createdAt)
                        ELSE secrets[k]]]

\* flyAppResource.getSecretComputedValues
getSecretComputedValues(app, stored, appName, secrets, fault) ==
    LET r == GetSecretsApi(app, stored, appName, fault)
    IN [errors |-> IF r.err.kind # "none" THEN {"GetSecrets failed"} ELSE {},
        calls |-> <<Call("GetSecrets", appName, {}, EmptyMap)>>,
        snapshot |-> r.app.secrets,
        secrets |-> [k \in DOMAIN secrets |->
                        IF k \in DOMAIN r.app.secrets
                        THEN appSecret(secrets[k].value, r.app.secrets[k].digest,
                                       FormatRFC3339(r.app.secrets[k].createdAt))
                        ELSE secrets[k]]]

\* a fill loop that takes the digest of the response and keeps the planned created_at
fillFromResponseDigestOnly(secrets, apiSecrets) ==
    [k \in DOMAIN secrets |->
        IF k \in DOMAIN apiSecrets
        THEN appSecret(secrets[k].value, apiSecrets[k].digest, secrets[k].createdAt)
        ELSE secrets[k]]

\* the secret list of a response: the entries of the store in the order `order`
SecretList(apiSecrets, order) ==
    [i \in 1..Len(order) |->
        [name |-> order[i], digest |-> apiSecrets[order[i]].digest,
         createdAt |-> apiSecrets[order[i]].createdAt]]

\* the orders in which a response can list the secrets of the store
Orderings(apiSecrets) ==
    {o \in [1..Cardinality(DOMAIN apiSecrets) -> DOMAIN apiSecrets] :
        \A i, j \in DOMAIN o : i # j => o[i] # o[j]}

\* a fill loop that also adds the entries of the response the map does not hold
RECURSIVE fillLoopAddMissing(_, _)
fillLoopAddMissing(secrets, list) ==
    IF list = <<>> THEN secrets
    ELSE LET s == Head(list)
             value == IF s.name \in DOMAIN secrets THEN secrets[s.name].value ELSE Null
         IN fillLoopAddMissing(
                Merge(secrets, [n \in {s.name} |->
                                  appSecret(value, s.digest, FormatRFC3339(s.createdAt))]),
                Tail(list))

\* setSecrets, the loop over resp.SetSecrets.App.Secrets: an entry of the list
\* whose name is not in the map is skipped, the others overwrite digest and
\* created-at of the map's entry and copy its value
RECURSIVE fillLoop(_, _)
fillLoop(secrets, list) ==
    IF list = <<>> THEN secrets
    ELSE LET s == Head(list)
         IN fillLoop(IF s.name \notin DOMAIN secrets THEN secrets
                     ELSE [secrets EXCEPT ![s.name] =
                              appSecret(secrets[s.name].value, s.digest, FormatRFC3339(s.createdAt))],
                     Tail(list))

\* what the fill loop of setSecrets leaves in the map, whatever the order of the
\* response list: the entries that the response names get its digest and
\* formatted created-at
fillFromResponse(secrets, apiSecrets) ==
    [k \in DOMAIN secrets |->
        IF k \in DOMAIN apiSecrets
        THEN appSecret(secrets[k].value, apiSecrets[k].digest,
                       FormatRFC3339(apiSecrets[k].createdAt))
        ELSE secrets[k]]

\* flyAppResource.setSecrets: one SetSecrets call for the whole map; the map is
\* updated in place, errors and warnings go to the diagnostics
setSecrets(app, stored, clock, appName, secrets, setFault, getFault) ==
    LET inputs == [k \in DOMAIN secrets |-> ValueString(secrets[k].value)]
        r == SetSecretsApi(app, stored, clock, appName, inputs, setFault)
        g == getSecretComputedValues(app, stored, appName, secrets, getFault)
        call == Call("SetSecrets", appName, DOMAIN inputs, inputs)
    IN IF r.err.kind # "none"
       THEN IF IsNoChange(r.err)
            THEN [outcome |-> "noop", errors |-> g.errors,
                  warnings |-> {"SetSecrets was no-op", "State may have drifted"},
                  calls |-> <<call>> \o g.calls, snapshot |-> g.snapshot,
                  secrets |-> g.secrets, stored |-> stored, now |-> clock]
            ELSE [outcome |-> "error", errors |-> {"SetSecrets errored"}, warnings |-> {},
                  calls |-> <<call>>, snapshot |-> EmptyMap,
                  secrets |-> secrets, stored |-> stored, now |-> clock]
       ELSE [outcome |-> "set", errors |-> {}, warnings |-> {}, calls |-> <<call>>,
             snapshot |-> r.app.secrets,
             secrets |-> fillFromResponse(secrets, r.app.secrets),
             stored |-> r.secrets, now |-> r.now]

(* ------------------------------ differ --------------------------------- *)

\* a differ that removes nothing
removedSecretsNone(st, pl) == {}

\* a differ that unsets every key the plan does not declare
removedSecretsNotPlanned(st, pl) == Keys \ DOMAIN pl.secrets

\* Update, "Unset secrets that were removed from config": the keys of state
\* that are not in the plan
removedSecrets(st, pl) == {k \in DOMAIN st.secrets : k \notin DOMAIN pl.secrets}

\* a differ that forgets the keys that newly appeared in the plan
newSecretsChangedOnly(st, pl) ==
    Restrict(pl.secrets,
             {k \in DOMAIN pl.secrets :
                 k \in DOMAIN st.secrets /\ ~Equal(st.secrets[k].value, pl.secrets[k].value)})

\* a differ that also sets again the secrets whose digest in state is not known
newSecretsUnknownDigest(st, pl) ==
    Restrict(pl.secrets,
             {k \in DOMAIN pl.secrets :
                 \/ k \notin DOMAIN st.secrets
                 \/ ~Equal(st.secrets[k].value, pl.secrets[k].value)
                 \/ IsUnknown(st.secrets[k].digest)})

\* a differ that sets every planned secret again
newSecretsAll(st, pl) == pl.secrets

\* Update, "Set secrets that were changed or newly appeared in config": the
\* plan's entries that are not in state or whose value is not Equal to the state's
newSecrets(st, pl) ==
    Restrict(pl.secrets,
             {k \in DOMAIN pl.secrets :
                 k \notin DOMAIN st.secrets \/ ~Equal(st.secrets[k].value, pl.secrets[k].value)})

(* ------------------------- lifecycle handlers -------------------------- *)

\* the two immutable-attribute checks at the head of Update
immutableErrors(pl, st) ==
    (IF ~IsUnknown(pl.org) /\ ValueString(pl.org) # ValueString(st.org)
     THEN {"Can't mutate org of existing app"} ELSE {})
    \union
    (IF ~IsNull(pl.name) /\ ValueString(pl.name) # ValueString(st.name)
     THEN {"Can't mutate Name of existing app"} ELSE {})

\* an Update that goes on to the set step whatever the diagnostics hold
returnAfterUnsetNever(unsetCalled, errors) == FALSE

\* Update, after the UnsetSecrets call: return when the diagnostics hold an error
returnAfterUnset(unsetCalled, errors) == unsetCalled /\ errors # {}

\* an Update that writes the merged state whatever the diagnostics hold
returnAfterSetNever(setCalled, errors) == FALSE

\* Update, after setSecrets: return when the diagnostics hold an error
returnAfterSet(setCalled, errors) == setCalled /\ errors # {}

\* an Update that leaves the removed keys in the response state
stateAfterUnsetRolledBack(st, st1, unsetCalled, unsetFailed) == st

\* Update, after the UnsetSecrets call: resp.State.Set when the call succeeded
stateAfterUnset(st, st1, unsetCalled, unsetFailed) ==
    IF unsetCalled /\ ~unsetFailed THEN st1 ELSE st

\* flyAppResource.Update: `state` in the result is resp.State when the handler returns
Update(app, stored, clock, pl, st, unsetFault, setFault, getFault) ==
    LET appName == ValueString(st.name)
        guard == immutableErrors(pl, st)
        removed == removedSecrets(st, pl)
        st1 == [st EXCEPT !.secrets = Restrict(@, (DOMAIN @) \ removed)]
        unsetCalled == removed # {}
        u == UnsetSecretsApi(app, stored, appName, removed, unsetFault)
        unsetFailed == unsetCalled /\ u.err.kind # "none"
        errors1 == guard \union (IF unsetFailed THEN {"UnsetSecrets failed"} ELSE {})
        stored1 == IF unsetCalled THEN u.secrets ELSE stored
        written1 == stateAfterUnset(st, st1, unsetCalled, unsetFailed)
        stop1 == returnAfterUnset(unsetCalled, errors1)
        batch == newSecrets(st1, pl)
        setCalled == ~stop1 /\ DOMAIN batch # {}
        s == setSecrets(app, stored1, clock, appName, batch, setFault, getFault)
        st2 == [st1 EXCEPT !.secrets = Merge(@, s.secrets)]
        errors2 == errors1 \union (IF setCalled THEN s.errors ELSE {})
        stop2 == returnAfterSet(setCalled, errors2)
    IN [state |-> IF stop1 \/ stop2 THEN written1 ELSE IF setCalled THEN st2 ELSE st1,
        errors |-> errors2,
        warnings |-> IF setCalled THEN s.warnings ELSE {},
        calls |-> (IF unsetCalled THEN <<Call("UnsetSecrets", appName, removed, EmptyMap)>> ELSE <<>>)
                  \o (IF setCalled THEN s.calls ELSE <<>>),
        removed |-> removed,
        diffed |-> ~stop1,
        batch |-> IF stop1 THEN EmptyMap ELSE batch,
        setOutcome |-> IF setCalled THEN s.outcome ELSE "none",
        setResult |-> IF setCalled THEN s.secrets ELSE EmptyMap,
        setErrors |-> IF setCalled THEN s.errors ELSE {},
        snapshot |-> IF setCalled THEN s.snapshot ELSE EmptyMap,
        stored |-> IF setCalled THEN s.stored ELSE stored1,
        now |-> IF setCalled THEN s.now ELSE clock]

\* a Create that calls setSecrets for an empty secret map too
createSetsSecretsAlways(created, secrets) == created

\* Create, `if len(data.Secrets) > 0`: setSecrets runs for a created app with secrets
createSetsSecrets(created, secrets) == created /\ DOMAIN secrets # {}

\* flyAppResource.Create
Create(app, stored, clock, pl, orgFault, createFault, setFault, getFault) ==
    LET orgCall == IF IsUnknown(pl.org) THEN "GetDefaultOrg" ELSE "Organization"
        orgErrors == IF orgFault = "none" THEN {}
                     ELSE IF IsUnknown(pl.org) THEN {"Could not detect default organization"}
                     ELSE {"Could not resolve organization"}
        org == IF IsUnknown(pl.org) THEN DefaultOrg ELSE ValueString(pl.org)
        c == CreateAppApi(app, ValueString(pl.name), org, createFault)
        createCalled == orgErrors = {}
        createErrors == IF createCalled /\ c.err.kind # "none" THEN {"Create app failed"} ELSE {}
        created == createCalled /\ createErrors = {}
        data == updateFromApi([exists |-> TRUE, name |-> pl.name, org |-> org, secrets |-> pl.secrets],
                              AppFragment(c.app, EmptyMap))
        setCalled == createSetsSecrets(created, pl.secrets)
        s == setSecrets(c.app, stored, clock, ValueString(data.name), pl.secrets, setFault, getFault)
        setErrors == IF setCalled THEN s.errors ELSE {}
    IN [state |-> IF ~created THEN NoState
                  ELSE IF setCalled /\ setErrors = {} THEN [data EXCEPT !.secrets = s.secrets]
                  ELSE data,
        errors |-> orgErrors \union createErrors \union setErrors,
        warnings |-> IF setCalled THEN s.warnings ELSE {},
        calls |-> <<Call(orgCall, "", {}, EmptyMap)>>
                  \o (IF createCalled THEN <<Call("CreateApp", ValueString(pl.name), {}, EmptyMap)>> ELSE <<>>)
                  \o (IF setCalled THEN s.calls ELSE <<>>),
        batch |-> IF setCalled THEN pl.secrets ELSE EmptyMap,
        setOutcome |-> IF setCalled THEN s.outcome ELSE "none",
        setResult |-> IF setCalled THEN s.secrets ELSE EmptyMap,
        setErrors |-> setErrors,
        snapshot |-> IF setCalled THEN s.snapshot ELSE EmptyMap,
        app |-> IF createCalled THEN c.app ELSE app,
        stored |-> IF setCalled THEN s.stored ELSE stored,
        now |-> IF setCalled THEN s.now ELSE clock]

\* the index of the first "Could not resolve " message of an error list, 0 if none
FirstNotFound(msgs) ==
    IF \E i \in 1..Len(msgs) : msgs[i] = MsgNotFound
    THEN CHOOSE i \in 1..Len(msgs) : msgs[i] = MsgNotFound /\ \A j \in 1..(i - 1) : msgs[j] # MsgNotFound
    ELSE 0

\* flyAppResource.Read
Read(app, stored, st, fault) ==
    LET appName == ValueString(st.name)
        q == GetAppApi(app, stored, appName, fault)
        nf == IF q.err.kind = "gql" THEN FirstNotFound(q.err.msgs) ELSE 0
        returned == nf > 0
        errors == IF q.err.kind = "gql"
                  THEN {q.err.msgs[i] : i \in 1..(IF returned THEN nf - 1 ELSE Len(q.err.msgs))}
                  ELSE IF q.err.kind = "transport" THEN {"Read: query failed"}
                  ELSE {}
    IN [state |-> IF returned THEN st ELSE updateSecretsFromApi(updateFromApi(st, q.app), q.app),
        errors |-> errors,
        calls |-> <<Call("GetApp", appName, {}, EmptyMap)>>,
        fetched |-> ~returned,
        snapshot |-> q.app.secrets]

\* a Delete that unsets the secrets of state before it deletes the app
DeleteUnsetsFirst(app, stored, st, fault) ==
    LET appName == ValueString(st.name)
        d == DeleteAppApi(app, stored, appName, fault)
    IN [state |-> NoState,
        errors |-> IF d.err.kind = "gql" THEN {d.err.msgs[i] : i \in 1..Len(d.err.msgs)}
                   ELSE IF d.err.kind = "transport" THEN {"Delete app failed"}
                   ELSE {},
        calls |-> (IF DOMAIN st.secrets # {}
                   THEN <<Call("UnsetSecrets", appName, DOMAIN st.secrets, EmptyMap)>> ELSE <<>>)
                  \o <<Call("DeleteApp", appName, {}, EmptyMap)>>,
        app |-> d.app,
        stored |-> d.secrets]

\* flyAppResource.Delete
Delete(app, stored, st, fault) ==
    LET appName == ValueString(st.name)
        d == DeleteAppApi(app, stored, appName, fault)
    IN [state |-> NoState,
        errors |-> IF d.err.kind = "gql" THEN {d.err.msgs[i] : i \in 1..Len(d.err.msgs)}
                   ELSE IF d.err.kind = "transport" THEN {"Delete app failed"}
                   ELSE {},
        calls |-> <<Call("DeleteApp", appName, {}, EmptyMap)>>,
        app |-> d.app,
        stored |-> d.secrets]

(* ------------------------------ actions -------------------------------- *)

\* the values a configuration declares for a key
Declared(k) == IF k = "A" THEN Values ELSE {"1"}

SecretMaps(V) == UNION {{m \in [S -> V] : \A k \in S : m[k] \in Declared(k) \union {Unknown}} : S \in SUBSET Keys}

ConfigsOver(V) == {[name |-> h[1], org |-> h[2], secrets |-> m] : h \in Headers, m \in SecretMaps(V)}

\* declared configurations whose secret values are all known
KnownConfigs == ConfigsOver(Values)

\* declared configurations with a secret value that is unknown while planning,
\* because it is interpolated from a resource that is not applied yet
UnknownConfigs == ConfigsOver(Values \union {Unknown}) \ KnownConfigs

\* the remote calls of one operation suffer at most one fault: a handler stops
\* at the first failed call
NoFaults == [org |-> "none", create |-> "none", unset |-> "none", set |-> "none", get |-> "none",
             query |-> "none", delete |-> "none"]
CreateFaults == {NoFaults, [NoFaults EXCEPT !.org = "transport"], [NoFaults EXCEPT !.create = "gql1"]}
                \union {[NoFaults EXCEPT !.set = f] : f \in Faults}
UpdateFaults == {NoFaults, [NoFaults EXCEPT !.unset = "transport"], [NoFaults EXCEPT !.get = "transport"]}
                \union {[NoFaults EXCEPT !.set = f] : f \in Faults}
ReadFaults == {[NoFaults EXCEPT !.query = f] : f \in {"none", "transport", "gql1"}}
DeleteFaults == {[NoFaults EXCEPT !.delete = f] : f \in {"none", "transport", "gql1"}}

NoOp == [kind |-> "none", prior |-> NoState, plan |-> NoPlan, config |-> EmptyMap, calls |-> <<>>,
         errors |-> {}, warnings |-> {}, removed |-> {}, diffed |-> FALSE, batch |-> EmptyMap,
         setOutcome |-> "none",
         setResult |-> EmptyMap, setErrors |-> {}, fetched |-> FALSE, snapshot |-> EmptyMap,
         storedBefore |-> EmptyMap]

InitConfig == [name |-> "app1", org |-> Null, secrets |-> EmptyMap]

\* no lifecycle operation is running and the host holds no unread response
Idle == op.kind = "none"

Init ==
    /\ remoteApp = NoApp
    /\ remote = EmptyMap
    /\ now = 0
    /\ state = NoState
    /\ config = InitConfig
    /\ op = NoOp
    /\ entities = {}
    /\ tracked = NoTracked
    /\ cop = NoChildOp
    /\ secret = NoSecret
    /\ sop = NoSecretOp

\* the host plans the configuration cfg against tracked state and applies nothing
PlanFor(cfg) ==
    /\ op' = [NoOp EXCEPT !.kind = "Plan", !.prior = state, !.plan = PlanResourceChange(cfg, state),
                          !.config = cfg.secrets, !.storedBefore = remote]
    /\ UNCHANGED <<remoteApp, remote, now, state, config, childVars, secretVars>>

\* the host plans cfg for a resource that is not in state and applies the plan
CreateWith(cfg, f, limit) ==
    /\ ~state.exists
    /\ \E pl \in {PlanResourceChange(cfg, state)} :
       \E r \in {Create(remoteApp, remote, now, pl, f.org, f.create, f.set, f.get)} :
          /\ r.now <= limit
          /\ f.set # "none" => r.setOutcome # "none"
          /\ f.get = "none"
          /\ state' = r.state
          /\ remoteApp' = r.app
          /\ remote' = r.stored
          /\ now' = r.now
          /\ op' = [NoOp EXCEPT !.kind = "Create", !.prior = state, !.plan = pl,
                                !.config = cfg.secrets, !.calls = r.calls,
                                !.errors = r.errors, !.warnings = r.warnings, !.batch = r.batch,
                                !.setOutcome = r.setOutcome, !.setResult = r.setResult,
                                !.setErrors = r.setErrors, !.snapshot = r.snapshot,
                                !.storedBefore = remote]
    /\ UNCHANGED <<config, childVars, secretVars>>

\* the host plans cfg for a resource that is in state and applies the plan
UpdateWith(cfg, f, limit) ==
    /\ state.exists
    /\ \E pl \in {PlanResourceChange(cfg, state)} :
       \E r \in {Update(remoteApp, remote, now, pl, state, f.unset, f.set, f.get)} :
          /\ r.now <= limit
          /\ f.unset # "none" => r.removed # {}
          /\ f.set # "none" => r.setOutcome # "none"
          /\ f.get # "none" => r.setOutcome = "noop"
          /\ state' = r.state
          /\ remote' = r.stored
          /\ now' = r.now
          /\ op' = [NoOp EXCEPT !.kind = "Update", !.prior = state, !.plan = pl,
                                !.config = cfg.secrets, !.calls = r.calls,
                                !.errors = r.errors, !.warnings = r.warnings, !.removed = r.removed,
                                !.diffed = r.diffed, !.batch = r.batch, !.setOutcome = r.setOutcome,
                                !.setResult = r.setResult, !.setErrors = r.setErrors,
                                !.snapshot = r.snapshot, !.storedBefore = remote]
    /\ UNCHANGED <<remoteApp, config, childVars, secretVars>>

\* the host refreshes the resource
ReadWith(f) ==
    /\ state.exists
    /\ \E r \in {Read(remoteApp, remote, state, f.query)} :
          /\ state' = r.state
          /\ op' = [NoOp EXCEPT !.kind = "Read", !.prior = state, !.calls = r.calls,
                                !.errors = r.errors, !.fetched = r.fetched,
                                !.snapshot = r.snapshot, !.storedBefore = remote]
    /\ UNCHANGED <<remoteApp, remote, now, config, childVars, secretVars>>

\* the host destroys the resource
DeleteWith(f) ==
    /\ state.exists
    /\ \E r \in {Delete(remoteApp, remote, state, f.delete)} :
          /\ state' = r.state
          /\ remoteApp' = r.app
          /\ remote' = r.stored
          /\ op' = [NoOp EXCEPT !.kind = "Delete", !.prior = state, !.calls = r.calls,
                                !.errors = r.errors, !.storedBefore = remote]
    /\ UNCHANGED <<now, config, childVars, secretVars>>

\* an out-of-band change leaves the clock one tick for a write that follows it
OobRoom == remoteApp.exists /\ now + 1 < MaxClock

\* another actor sets a secret to a new value directly in the store
OobSet(k, v) ==
    /\ remoteApp.exists
    /\ (k \in DOMAIN remote => remote[k].value # v)
    /\ remote' = Merge(remote, [x \in {k} |-> [value |-> v, digest |-> Digest(v), createdAt |-> now + 1]])
    /\ now' = now + 1
    /\ UNCHANGED <<remoteApp, state, config, op, childVars, secretVars>>

\* another actor removes a secret and sets it again with the value it had
OobReset(k) ==
    /\ remoteApp.exists
    /\ k \in DOMAIN remote
    /\ remote' = [remote EXCEPT ![k].createdAt = now + 1]
    /\ now' = now + 1
    /\ UNCHANGED <<remoteApp, state, config, op, childVars, secretVars>>

\* another actor removes a secret directly from the store
OobUnset(k) ==
    /\ remoteApp.exists
    /\ k \in DOMAIN remote
    /\ remote' = Restrict(remote, (DOMAIN remote) \ {k})
    /\ now' = now + 1
    /\ UNCHANGED <<remoteApp, state, config, op, childVars, secretVars>>

\* another actor destroys the app; its secrets go with it
OobDeleteApp ==
    /\ remoteApp.exists
    /\ remoteApp' = NoApp
    /\ remote' = EmptyMap
    /\ UNCHANGED <<now, state, config, op, childVars, secretVars>>

\* the host takes the response of the operation: its diagnostics and the new state
Respond ==
    /\ ~Idle
    /\ op' = NoOp
    /\ UNCHANGED <<remoteApp, remote, now, state, config, childVars, secretVars>>

\* one operation at a time: the host starts the next one when it has taken the
\* response of the last
DoPlan == Idle /\ \E cfg \in UnknownConfigs : PlanFor(cfg)
DoCreate == Idle /\ \E cfg \in KnownConfigs, f \in CreateFaults : CreateWith(cfg, f, MaxClock)
DoUpdate == Idle /\ \E cfg \in KnownConfigs, f \in UpdateFaults : UpdateWith(cfg, f, MaxClock)
DoRead == Idle /\ \E f \in ReadFaults : ReadWith(f)
DoDelete == Idle /\ \E f \in DeleteFaults : DeleteWith(f)
DoOobSet == Idle /\ OobRoom /\ \E k \in Keys, v \in Values : OobSet(k, v)
DoOobReset == Idle /\ OobRoom /\ \E k \in Keys : OobReset(k)
DoOobUnset == Idle /\ OobRoom /\ \E k \in Keys : OobUnset(k)
DoOobDeleteApp == Idle /\ OobDeleteApp

Next ==
    \/ DoPlan
    \/ DoCreate
    \/ DoUpdate
    \/ DoRead
    \/ DoDelete
    \/ DoOobSet
    \/ DoOobReset
    \/ DoOobUnset
    \/ DoOobDeleteApp
    \/ Respond

Spec == Init /\ [][Next]_vars

(* ------------------- reconciliation of a fixed configuration ----------- *)

\* The host applies one unchanged configuration again and again, each apply a
\* Read followed by plan and Update, while another actor changes the store; no
\* remote call fails.
LiveInit ==
    /\ remoteApp = NoApp
    /\ remote = EmptyMap
    /\ now = 0
    /\ state = NoState
    /\ config \in KnownConfigs
    /\ op = NoOp
    /\ entities = {}
    /\ tracked = NoTracked
    /\ cop = NoChildOp
    /\ secret = NoSecret
    /\ sop = NoSecretOp

\* the other actor stops while the clock leaves two ticks: one for an Update that
\* was planned before the last change, one for the Update that repairs it
LiveRoom == remoteApp.exists /\ now + 2 < MaxLiveClock

LiveCreate == CreateWith(config, NoFaults, MaxLiveClock)
LiveRead == op.kind \in {"Create", "Update"} /\ ReadWith(NoFaults)
LiveUpdate == op.kind = "Read" /\ UpdateWith(config, NoFaults, MaxLiveClock)
LiveOobSet == LiveRoom /\ \E k \in Keys, v \in Values : OobSet(k, v)
LiveOobReset == LiveRoom /\ \E k \in Keys : OobReset(k)
LiveOobUnset == LiveRoom /\ \E k \in Keys : OobUnset(k)

LiveNext ==
    \/ LiveCreate
    \/ LiveRead
    \/ LiveUpdate
    \/ LiveOobSet
    \/ LiveOobReset
    \/ LiveOobUnset

\* the host keeps applying: an operation that can run does run
LiveSpec ==
    /\ LiveInit /\ [][LiveNext]_vars
    /\ WF_vars(LiveCreate) /\ WF_vars(LiveRead) /\ WF_vars(LiveUpdate)

(* ------------------- volume, ip and cert resources --------------------- *)

\* The three resources are tracked as [id, app, key, detail]: key is the
\* attribute the query takes beside the app (internalid of a volume, address of
\* an ip, hostname of a cert), detail stands for the attributes only a query fills.
ChildKinds == {"volume", "ip", "cert"}

\* what the control plane can hold: one entity of each kind, attached to app1
Universe ==
    {[kind |-> "volume", id |-> "vol_1", app |-> "app1", key |-> "1", detail |-> "ams"],
     [kind |-> "ip", id |-> "ip_1", app |-> "app1", key |-> "10.0.0.1", detail |-> "global"],
     [kind |-> "cert", id |-> "cert_1", app |-> "app1", key |-> "example.com", detail |-> "dns"]}

ZeroEntity(kind) == [kind |-> kind, id |-> "", app |-> "", key |-> "", detail |-> ""]

\* an import identifier is held as its comma-separated fields; the identifier
\* itself is their join
ImportIds ==
    {<<"app1">>, <<"app2">>, <<"vol_1">>, <<"ip_1">>, <<"app1", "1">>, <<"app1", "10.0.0.1">>,
     <<"app1", "example.com">>, <<"app1", "">>, <<"app1", "example.com", "x">>}

RECURSIVE JoinId(_)
JoinId(parts) ==
    IF Len(parts) = 0 THEN ""
    ELSE IF Len(parts) = 1 THEN parts[1]
    ELSE parts[1] \o "," \o JoinId(Tail(parts))

ChildCall(api, app, key) == [api |-> api, app |-> app, key |-> key]

\* VolumeQuery, IpAddressQuery and GetCertificate: the entity of the app with
\* that key, "Could not resolve " when there is none
ChildQueryApi(ents, kind, app, key, fault) ==
    IF fault # "none"
    THEN [err |-> FaultErr(fault), entity |-> ZeroEntity(kind)]
    ELSE IF \E e \in ents : e.kind = kind /\ e.app = app /\ e.key = key
    THEN [err |-> NoErr, entity |-> CHOOSE e \in ents : e.kind = kind /\ e.app = app /\ e.key = key]
    ELSE [err |-> GqlErr(<<MsgNotFound>>), entity |-> ZeroEntity(kind)]

\* resource.ImportStatePassthroughID: the whole identifier goes to one attribute
ImportStatePassthroughID(kind, attr, id) ==
    [state |-> [NoTracked EXCEPT !.exists = TRUE, !.kind = kind, ![attr] = JoinId(id)],
     errors |-> {}]

\* flyVolumeResource.ImportState
VolumeImportState(id) == ImportStatePassthroughID("volume", "id", id)

\* flyIpResource.ImportState
IpImportState(id) == ImportStatePassthroughID("ip", "id", id)

\* flyCertResource.ImportState: the identifier is split at the commas
CertImportState(id) ==
    IF Len(id) # 2 \/ id[1] = "" \/ id[2] = ""
    THEN [state |-> NoTracked, errors |-> {"Unexpected Import Identifier"}]
    ELSE [state |-> [NoTracked EXCEPT !.exists = TRUE, !.kind = "cert", !.app = id[1], !.key = id[2]],
          errors |-> {}]

\* flyAppResource.ImportState
AppImportState(id) ==
    [state |-> [exists |-> TRUE, name |-> JoinId(id), org |-> Null, secrets |-> EmptyMap],
     errors |-> {}]

\* the state a Read writes from the answer of its query
ChildFromQuery(kind, app, entity) ==
    [exists |-> TRUE, kind |-> kind, id |-> entity.id, app |-> app, key |-> entity.key,
     detail |-> entity.detail]

\* flyVolumeResource.Read
VolumeRead(ents, st, fault) ==
    LET internalId == ValueString(st.key)
        app == ValueString(st.app)
        q == ChildQueryApi(ents, "volume", app, internalId, fault)
    IN [state |-> ChildFromQuery("volume", app, q.entity),
        errors |-> IF q.err.kind # "none" THEN {"Read: query failed"} ELSE {},
        calls |-> <<ChildCall("VolumeQuery", app, internalId)>>]

\* Read of the ip and the cert resource: a "Could not resolve " error ends it
ReadUnlessNotFound(kind, api, ents, st, fault) ==
    LET key == ValueString(st.key)
        app == ValueString(st.app)
        q == ChildQueryApi(ents, kind, app, key, fault)
        nf == IF q.err.kind = "gql" THEN FirstNotFound(q.err.msgs) ELSE 0
        returned == nf > 0
    IN [state |-> IF returned THEN st ELSE ChildFromQuery(kind, app, q.entity),
        errors |-> IF q.err.kind = "gql"
                   THEN {q.err.msgs[i] : i \in 1..(IF returned THEN nf - 1 ELSE Len(q.err.msgs))}
                   ELSE IF q.err.kind = "transport" THEN {"Read: query failed"}
                   ELSE {},
        calls |-> <<ChildCall(api, app, key)>>]

\* flyIpResource.Read
IpRead(ents, st, fault) == ReadUnlessNotFound("ip", "IpAddressQuery", ents, st, fault)

\* flyCertResource.Read
CertRead(ents, st, fault) == ReadUnlessNotFound("cert", "GetCertificate", ents, st, fault)

ChildImportState(kind, id) ==
    CASE kind = "volume" -> VolumeImportState(id)
      [] kind = "ip" -> IpImportState(id)
      [] kind = "cert" -> CertImportState(id)

ChildRead(ents, st, fault) ==
    CASE st.kind = "volume" -> VolumeRead(ents, st, fault)
      [] st.kind = "ip" -> IpRead(ents, st, fault)
      [] st.kind = "cert" -> CertRead(ents, st, fault)

\* CreateVolume, AllocateIpAddress and AddCertificate: the control plane attaches
\* the entity of that kind to the app; it fails when the app is missing or the
\* entity is attached already
ChildCreateApi(ents, app, kind, appName, fault) ==
    LET new == {e \in Universe : e.kind = kind /\ e.app = appName}
    IN IF fault # "none"
       THEN [err |-> FaultErr(fault), entity |-> ZeroEntity(kind), entities |-> ents]
       ELSE IF ~RemoteHasApp(app, appName) \/ new = {}
       THEN [err |-> GqlErr(<<MsgNotFound>>), entity |-> ZeroEntity(kind), entities |-> ents]
       ELSE IF new \subseteq ents
       THEN [err |-> GqlErr(<<MsgOther>>), entity |-> ZeroEntity(kind), entities |-> ents]
       ELSE [err |-> NoErr, entity |-> CHOOSE e \in new : TRUE, entities |-> ents \union new]

\* DeleteVolume and ReleaseIpAddress, by id
DeleteByIdApi(ents, kind, id, fault) ==
    IF fault # "none"
    THEN [err |-> FaultErr(fault), entities |-> ents]
    ELSE IF ~\E e \in ents : e.kind = kind /\ e.id = id
    THEN [err |-> GqlErr(<<MsgNotFound>>), entities |-> ents]
    ELSE [err |-> NoErr, entities |-> {e \in ents : ~(e.kind = kind /\ e.id = id)}]

\* DeleteCertificate, by app and hostname
DeleteCertificateApi(ents, app, hostname, fault) ==
    IF fault # "none"
    THEN [err |-> FaultErr(fault), entities |-> ents]
    ELSE IF ~\E e \in ents : e.kind = "cert" /\ e.app = app /\ e.key = hostname
    THEN [err |-> GqlErr(<<MsgNotFound>>), entities |-> ents]
    ELSE [err |-> NoErr,
          entities |-> {e \in ents : ~(e.kind = "cert" /\ e.app = app /\ e.key = hostname)}]

\* Create of the three resources: the remote call, an error when it failed, then
\* the state is set from the answer in either case
CreateAndSet(kind, api, message, ents, app, pl, fault) ==
    LET appName == ValueString(pl.app)
        q == ChildCreateApi(ents, app, kind, appName, fault)
    IN [state |-> ChildFromQuery(kind, appName, q.entity),
        errors |-> IF q.err.kind # "none" THEN {message} ELSE {},
        calls |-> <<ChildCall(api, appName, ValueString(pl.key))>>,
        entities |-> q.entities]

\* flyVolumeResource.Create
VolumeCreate(ents, app, pl, fault) ==
    CreateAndSet("volume", "CreateVolume", "Failed to create volume", ents, app, pl, fault)

\* flyIpResource.Create
IpCreate(ents, app, pl, fault) ==
    CreateAndSet("ip", "AllocateIpAddress", "Failed to create ip addr", ents, app, pl, fault)

\* flyCertResource.Create
CertCreate(ents, app, pl, fault) ==
    CreateAndSet("cert", "AddCertificate", "Failed to create cert", ents, app, pl, fault)

\* an Update of a volume that writes the plan
VolumeUpdateApplies(pl, st) ==
    [state |-> pl, errors |-> {}, calls |-> <<>>]

\* flyVolumeResource.Update
VolumeUpdate(pl, st) ==
    [state |-> st, errors |-> {"The fly api does not allow updating volumes once created"},
     calls |-> <<>>]

\* flyIpResource.Update
IpUpdate(pl, st) ==
    [state |-> st, errors |-> {"The fly api does not allow updating ips once created"},
     calls |-> <<>>]

\* flyCertResource.Update
CertUpdate(pl, st) ==
    [state |-> st, errors |-> {"The fly api does not allow updating certs once created"},
     calls |-> <<>>]

\* a Delete that calls the control plane whatever the id is
deleteCalledAlways(id) == TRUE

\* Delete of a volume or an ip: the id of state is known, not null and not empty
deleteCalled(id) == ~IsUnknown(id) /\ ~IsNull(id) /\ ValueString(id) # ""

\* Delete of a volume or an ip
DeleteById(kind, api, message, ents, st, fault) ==
    LET called == deleteCalled(st.id)
        d == DeleteByIdApi(ents, kind, ValueString(st.id), fault)
    IN [state |-> NoTracked,
        errors |-> IF called /\ d.err.kind # "none" THEN {message} ELSE {},
        calls |-> IF called THEN <<ChildCall(api, "", ValueString(st.id))>> ELSE <<>>,
        entities |-> IF called THEN d.entities ELSE ents]

\* flyVolumeResource.Delete
VolumeDelete(ents, st, fault) ==
    DeleteById("volume", "DeleteVolume", "Delete volume failed", ents, st, fault)

\* flyIpResource.Delete
IpDelete(ents, st, fault) ==
    DeleteById("ip", "ReleaseIpAddress", "Release ip failed", ents, st, fault)

\* flyCertResource.Delete
CertDelete(ents, st, fault) ==
    LET d == DeleteCertificateApi(ents, ValueString(st.app), ValueString(st.key), fault)
    IN [state |-> NoTracked,
        errors |-> IF d.err.kind # "none" THEN {"Delete cert failed"} ELSE {},
        calls |-> <<ChildCall("DeleteCertificate", ValueString(st.app), ValueString(st.key))>>,
        entities |-> d.entities]

ChildCreate(kind, ents, app, pl, fault) ==
    CASE kind = "volume" -> VolumeCreate(ents, app, pl, fault)
      [] kind = "ip" -> IpCreate(ents, app, pl, fault)
      [] kind = "cert" -> CertCreate(ents, app, pl, fault)

ChildUpdate(pl, st) ==
    CASE st.kind = "volume" -> VolumeUpdate(pl, st)
      [] st.kind = "ip" -> IpUpdate(pl, st)
      [] st.kind = "cert" -> CertUpdate(pl, st)

ChildDelete(ents, st, fault) ==
    CASE st.kind = "volume" -> VolumeDelete(ents, st, fault)
      [] st.kind = "ip" -> IpDelete(ents, st, fault)
      [] st.kind = "cert" -> CertDelete(ents, st, fault)

\* the plan of a volume, ip or cert for an app: the hostname of a cert is
\* configured, the other attributes beside the app are computed
ChildPlan(kind, appName, st) ==
    [exists |-> TRUE, kind |-> kind,
     id |-> IF st.exists THEN st.id ELSE Unknown,
     app |-> appName,
     key |-> IF kind = "cert" THEN "example.com" ELSE IF st.exists THEN st.key ELSE Unknown,
     detail |-> IF st.exists THEN st.detail ELSE Unknown]

(* --------------------------- import and read --------------------------- *)

\* The host imports one resource by identifier and refreshes it.
ImportInit ==
    /\ remoteApp \in {NoApp, [exists |-> TRUE, name |-> "app1", org |-> DefaultOrg]}
    /\ remote = IF remoteApp.exists
                THEN [k \in {"A"} |-> [value |-> "1", digest |-> Digest("1"), createdAt |-> 1]]
                ELSE EmptyMap
    /\ now = IF remoteApp.exists THEN 1 ELSE 0
    /\ state = NoState
    /\ config = InitConfig
    /\ op = NoOp
    /\ entities \in SUBSET Universe
    /\ entities # {} => remoteApp.exists
    /\ tracked = NoTracked
    /\ cop = NoChildOp
    /\ secret = NoSecret
    /\ sop = NoSecretOp

NothingTracked == ~state.exists /\ ~tracked.exists

ImportChild(kind, id) ==
    /\ NothingTracked
    /\ \E r \in {ChildImportState(kind, id)} :
          /\ tracked' = r.state
          /\ cop' = [NoChildOp EXCEPT !.kind = "Import", !.resource = kind, !.errors = r.errors]
    /\ UNCHANGED <<remoteApp, remote, now, state, config, op, entities, secretVars>>

ReadChild(fault) ==
    /\ tracked.exists
    /\ \E r \in {ChildRead(entities, tracked, fault)} :
          /\ tracked' = r.state
          /\ cop' = [NoChildOp EXCEPT !.kind = "Read", !.resource = tracked.kind, !.prior = tracked,
                                      !.calls = r.calls, !.errors = r.errors, !.fault = fault,
                                      !.afterImport = (cop.kind = "Import")]
    /\ UNCHANGED <<remoteApp, remote, now, state, config, op, entities, secretVars>>

ImportApp(id) ==
    /\ NothingTracked
    /\ \E r \in {AppImportState(id)} :
          /\ state' = r.state
          /\ op' = [NoOp EXCEPT !.kind = "Import", !.errors = r.errors]
    /\ UNCHANGED <<remoteApp, remote, now, config, childVars, secretVars>>

ReadApp == ReadWith(NoFaults)

DoImportChild == \E kind \in ChildKinds, id \in ImportIds : ImportChild(kind, id)
DoReadChild == \E fault \in {"none", "transport", "gql1"} : ReadChild(fault)
DoImportApp == \E id \in ImportIds : ImportApp(id)

ImportNext ==
    \/ DoImportChild
    \/ DoReadChild
    \/ DoImportApp
    \/ ReadApp

ImportSpec == ImportInit /\ [][ImportNext]_vars

(* ----------------------- fly_app_secret resource ----------------------- *)

\* the id the store gives the secret of a name
SecretId(name) == "s_" \o name

\* a diag.Diagnostics handed to a callee by value: what the callee adds stays in
\* the callee's copy of the slice
diagsByValue(diags, added) == diags

\* Create and Update, `r.setSecret(ctx, &data, resp.Diagnostics)`: the response's
\* diagnostics when setSecret has returned
diagsAfterSetSecret(diags, added) == diagsByValue(diags, added)

\* appSecretResource.setSecret: `added` are the errors it adds to its diagnostics
setSecret(app, stored, clock, data, fault) ==
    LET appId == ValueString(data.appId)
        name == ValueString(data.name)
        inputs == [k \in {name} |-> ValueString(data.value)]
        r == SetSecretsApi(app, stored, clock, appId, inputs, fault)
        call == Call("SetSecret", appId, {name}, inputs)
    IN IF r.err.kind # "none"
       THEN [data |-> data, added |-> {"SetSecrets failed"}, calls |-> <<call>>,
             stored |-> stored, now |-> clock]
       ELSE IF name \in DOMAIN r.app.secrets
       THEN [data |-> [data EXCEPT !.id = SecretId(name),
                                   !.createdAt = FormatRFC3339(r.app.secrets[name].createdAt),
                                   !.digest = r.app.secrets[name].digest],
             added |-> {}, calls |-> <<call>>, stored |-> r.secrets, now |-> r.now]
       ELSE [data |-> data, added |-> {"Secret was not found after setting it"},
             calls |-> <<call>>, stored |-> r.secrets, now |-> r.now]

\* appSecretResource.Create
SecretCreate(app, stored, clock, pl, fault) ==
    LET s == setSecret(app, stored, clock, pl, fault)
        errors == diagsAfterSetSecret({}, s.added)
    IN [state |-> IF errors # {} THEN NoSecret ELSE [s.data EXCEPT !.exists = TRUE],
        errors |-> errors, failed |-> s.added # {}, calls |-> s.calls,
        stored |-> s.stored, now |-> s.now]

\* appSecretResource.Update
SecretUpdate(app, stored, clock, pl, fault) ==
    LET s == setSecret(app, stored, clock, pl, fault)
        errors == diagsAfterSetSecret({}, s.added)
    IN [state |-> [s.data EXCEPT !.exists = TRUE],
        errors |-> errors, failed |-> s.added # {}, calls |-> s.calls,
        stored |-> s.stored, now |-> s.now]

\* appSecretResource.refreshSecret, after a GetSecrets call that succeeded
refreshSecret(data, apiSecrets) ==
    IF ValueString(data.name) \in DOMAIN apiSecrets
    THEN LET sec == apiSecrets[ValueString(data.name)]
             id == SecretId(ValueString(data.name))
             createdAt == FormatRFC3339(sec.createdAt)
             digest == sec.digest
         IN [data EXCEPT !.value = IF data.id # id \/ data.createdAt # createdAt \/ data.digest # digest
                                   THEN Unknown ELSE @,
                         !.id = id, !.createdAt = createdAt, !.digest = digest]
    ELSE data

\* the extension code of a remote error
Code(msg) == IF msg = MsgNotFound THEN "NOT_FOUND" ELSE "OTHER"

\* errList[i] of Go, whose indices start at 0, is within the list
InRange(list, i) == i + 1 <= Len(list)

\* appSecretResource.Read; `panicked`: the handler ended in a run-time panic
\* (index out of range) and gave no response
SecretRead(app, stored, st, fault) ==
    LET appId == ValueString(st.appId)
        r == GetSecretsApi(app, stored, appId, fault)
        isList == r.err.kind = "gql"
        indexed == isList /\ Len(r.err.msgs) = 1
        panicked == indexed /\ ~InRange(r.err.msgs, 1)
        notFound == indexed /\ ~panicked /\ Code(r.err.msgs[2]) = "NOT_FOUND"
        data == IF r.err.kind = "none" THEN refreshSecret(st, r.app.secrets) ELSE st
    IN [state |-> IF panicked THEN st
                  ELSE IF notFound THEN NoSecret
                  ELSE IF r.err.kind # "none" THEN st
                  ELSE data,
        errors |-> IF ~panicked /\ ~notFound /\ r.err.kind # "none" THEN {"Refreshing failed"} ELSE {},
        panicked |-> panicked,
        fetched |-> r.err.kind = "none",
        calls |-> <<Call("GetSecrets", appId, {}, EmptyMap)>>,
        snapshot |-> r.app.secrets]

\* appSecretResource.Delete
SecretDelete(app, stored, st, fault) ==
    LET appId == ValueString(st.appId)
        name == ValueString(st.name)
        u == UnsetSecretsApi(app, stored, appId, {name}, fault)
    IN [state |-> NoSecret,
        errors |-> IF u.err.kind = "gql" THEN {u.err.msgs[i] : i \in 1..Len(u.err.msgs)}
                   ELSE IF u.err.kind = "transport" THEN {"Delete app failed"}
                   ELSE {},
        calls |-> <<Call("UnsetSecret", appId, {name}, EmptyMap)>>,
        stored |-> u.secrets]

\* whether the configuration of a fly_app_secret differs from prior state
SecretHasDiff(cfg, st) ==
    ~st.exists \/ cfg.appId # st.appId \/ cfg.name # st.name \/ cfg.value # st.value

\* the plan of the fly_app_secret resource: app_id, name and value are required,
\* id, digest and created_at are computed and carry the freeze modifier
SecretPlan(cfg, st) ==
    LET prior(a) == IF st.exists THEN st[a] ELSE Null
        marked(a) == IF SecretHasDiff(cfg, st) THEN Unknown ELSE prior(a)
        frozen(a) == PlanModifyString(prior(a), marked(a), Null,
                                      secretValueUnchanged(prior("value"), cfg.value))
    IN [exists |-> TRUE, appId |-> cfg.appId, id |-> frozen("id"), name |-> cfg.name,
        value |-> cfg.value, digest |-> frozen("digest"), createdAt |-> frozen("createdAt")]

(* ----------------------- lifecycle of all resources -------------------- *)

\* The host manages one app and, beside it, one fly_app_secret or one volume, ip
\* or cert, one operation at a time, while another actor changes the store.
AppNames == {"app1", "app2"}

\* the configurations of the app in this scenario
ResourceConfigs == {InitConfig, [InitConfig EXCEPT !.secrets = [k \in {"A"} |-> "1"]]}

\* the configurations of the fly_app_secret resource
SecretConfigs == {[appId |-> a, name |-> k, value |-> v] : a \in AppNames, k \in {"A"}, v \in Values}

ChildFaults == {"none", "transport", "gql1"}

ResourceInit ==
    /\ remoteApp = NoApp
    /\ remote = EmptyMap
    /\ now = 0
    /\ state = NoState
    /\ config = InitConfig
    /\ op = NoOp
    /\ entities = {}
    /\ tracked = NoTracked
    /\ cop = NoChildOp
    /\ secret = NoSecret
    /\ sop = NoSecretOp

\* the host holds no unread response
Quiet == op = NoOp /\ cop = NoChildOp /\ sop = NoSecretOp

\* the host takes the response of the last operation
Acknowledge ==
    /\ ~Quiet
    /\ op' = NoOp
    /\ cop' = NoChildOp
    /\ sop' = NoSecretOp
    /\ UNCHANGED <<remoteApp, remote, now, state, config, entities, tracked, secret>>

CreateChild(kind, appName, fault) ==
    /\ ~tracked.exists /\ ~secret.exists
    /\ \E pl \in {ChildPlan(kind, appName, tracked)} :
       \E r \in {ChildCreate(kind, entities, remoteApp, pl, fault)} :
          /\ tracked' = r.state
          /\ entities' = r.entities
          /\ cop' = [NoChildOp EXCEPT !.kind = "Create", !.resource = kind, !.prior = tracked,
                                      !.plan = pl, !.calls = r.calls, !.errors = r.errors,
                                      !.fault = fault]
    /\ UNCHANGED <<remoteApp, remote, now, state, config, op, secretVars>>

UpdateChild(pl) ==
    /\ tracked.exists
    /\ pl # tracked
    /\ \E r \in {ChildUpdate(pl, tracked)} :
          /\ tracked' = r.state
          /\ cop' = [NoChildOp EXCEPT !.kind = "Update", !.resource = tracked.kind, !.prior = tracked,
                                      !.plan = pl, !.calls = r.calls, !.errors = r.errors]
    /\ UNCHANGED <<remoteApp, remote, now, state, config, op, entities, secretVars>>

DeleteChild(fault) ==
    /\ tracked.exists
    /\ \E r \in {ChildDelete(entities, tracked, fault)} :
          /\ fault # "none" => r.calls # <<>>
          /\ tracked' = r.state
          /\ entities' = r.entities
          /\ cop' = [NoChildOp EXCEPT !.kind = "Delete", !.resource = tracked.kind, !.prior = tracked,
                                      !.calls = r.calls, !.errors = r.errors, !.fault = fault]
    /\ UNCHANGED <<remoteApp, remote, now, state, config, op, secretVars>>

CreateSecret(cfg, fault) ==
    /\ ~secret.exists /\ ~tracked.exists
    /\ \E pl \in {SecretPlan(cfg, secret)} :
       \E r \in {SecretCreate(remoteApp, remote, now, pl, fault)} :
          /\ r.now <= MaxClock
          /\ secret' = r.state
          /\ remote' = r.stored
          /\ now' = r.now
          /\ sop' = [NoSecretOp EXCEPT !.kind = "Create", !.prior = secret, !.plan = pl,
                                       !.calls = r.calls, !.errors = r.errors, !.fault = fault,
                                       !.failed = r.failed]
    /\ UNCHANGED <<remoteApp, state, config, op, childVars>>

UpdateSecret(cfg, fault) ==
    /\ secret.exists
    /\ SecretHasDiff(cfg, secret)
    /\ \E pl \in {SecretPlan(cfg, secret)} :
       \E r \in {SecretUpdate(remoteApp, remote, now, pl, fault)} :
          /\ r.now <= MaxClock
          /\ secret' = r.state
          /\ remote' = r.stored
          /\ now' = r.now
          /\ sop' = [NoSecretOp EXCEPT !.kind = "Update", !.prior = secret, !.plan = pl,
                                       !.calls = r.calls, !.errors = r.errors, !.fault = fault,
                                       !.failed = r.failed]
    /\ UNCHANGED <<remoteApp, state, config, op, childVars>>

ReadSecret(fault) ==
    /\ secret.exists
    /\ \E r \in {SecretRead(remoteApp, remote, secret, fault)} :
          /\ secret' = r.state
          /\ sop' = [NoSecretOp EXCEPT !.kind = "Read", !.prior = secret, !.calls = r.calls,
                                       !.errors = r.errors, !.fault = fault,
                                       !.failed = ~r.fetched, !.fetched = r.fetched,
                                       !.panicked = r.panicked, !.snapshot = r.snapshot]
    /\ UNCHANGED <<remoteApp, remote, now, state, config, op, childVars>>

DeleteSecret(fault) ==
    /\ secret.exists
    /\ \E r \in {SecretDelete(remoteApp, remote, secret, fault)} :
          /\ secret' = r.state
          /\ remote' = r.stored
          /\ sop' = [NoSecretOp EXCEPT !.kind = "Delete", !.prior = secret, !.calls = r.calls,
                                       !.errors = r.errors, !.fault = fault,
                                       !.failed = r.errors # {}]
    /\ UNCHANGED <<remoteApp, now, state, config, op, childVars>>

HostCreateApp == Quiet /\ \E cfg \in ResourceConfigs : CreateWith(cfg, NoFaults, MaxClock)
HostDeleteApp == Quiet /\ \E f \in DeleteFaults : DeleteWith(f)
HostCreateChild == Quiet /\ \E kind \in ChildKinds, a \in AppNames, f \in ChildFaults : CreateChild(kind, a, f)
HostUpdateChild ==
    Quiet /\ \E a \in AppNames, st \in {tracked, NoTracked} : UpdateChild(ChildPlan(tracked.kind, a, st))
HostReadChild == Quiet /\ \E f \in ChildFaults : ReadChild(f)
HostDeleteChild == Quiet /\ \E f \in ChildFaults : DeleteChild(f)
HostCreateSecret == Quiet /\ \E cfg \in SecretConfigs, f \in ChildFaults : CreateSecret(cfg, f)
HostUpdateSecret == Quiet /\ \E cfg \in SecretConfigs, f \in ChildFaults : UpdateSecret(cfg, f)
HostReadSecret == Quiet /\ \E f \in Faults : ReadSecret(f)
HostDeleteSecret == Quiet /\ \E f \in ChildFaults : DeleteSecret(f)
OtherSet == Quiet /\ OobRoom /\ \E v \in Values : OobSet("A", v)
OtherUnset == Quiet /\ OobRoom /\ OobUnset("A")
OtherDeleteApp == Quiet /\ OobDeleteApp

ResourceNext ==
    \/ HostCreateApp
    \/ HostDeleteApp
    \/ HostCreateChild
    \/ HostUpdateChild
    \/ HostReadChild
    \/ HostDeleteChild
    \/ HostCreateSecret
    \/ HostUpdateSecret
    \/ HostReadSecret
    \/ HostDeleteSecret
    \/ OtherSet
    \/ OtherUnset
    \/ OtherDeleteApp
    \/ Acknowledge

ResourceSpec == ResourceInit /\ [][ResourceNext]_vars

(* ------------------------------ properties ----------------------------- *)

\* the keys the last operation manages: those of prior state and of the plan
Managed == (DOMAIN op.prior.secrets) \union (DOMAIN op.plan.secrets)

CallsOf(api) == {i \in 1..Len(op.calls) : op.calls[i].api = api}
BatchKeys == UNION {op.calls[i].keys : i \in CallsOf("SetSecrets") \union CallsOf("UnsetSecrets")}

\* the entry of key k in a secret map, null when absent
Entry(secrets, k) == IF k \in DOMAIN secrets THEN secrets[k] ELSE appSecret(Null, Null, Null)

\* C1: in Create, Read and Update, a secret name that is in the remote store but
\* neither in the plan nor in prior state is in no SetSecrets or UnsetSecrets
\* batch and is not added to state.
C1_UnmanagedPassthrough ==
    op.kind \in {"Create", "Read", "Update"} =>
        \A k \in (DOMAIN op.storedBefore) \ Managed :
            k \notin BatchKeys /\ k \notin DOMAIN state.secrets

\* an Update that removed one key and set another while the store held a third,
\* unmanaged one, or a no-op set whose compensating snapshot held an unmanaged key
C1_Witness ==
    /\ op.kind = "Update" /\ op.errors = {}
    /\ CallsOf("SetSecrets") # {}
    /\ \E k \in (DOMAIN op.storedBefore) \ Managed : k \in DOMAIN op.snapshot /\ k \in DOMAIN remote

\* C2: in Update the keys to remove are keys(O) \ keys(D); with toAdd the batch
\* keys that are not in O, toAdd = keys(D) \ keys(O), toAdd and toRemove are
\* disjoint, toAdd, keys(D) \cap keys(O) and toRemove cover keys(D) \cup keys(O),
\* and every key of the set batch is in toAdd or in keys(D) \cap keys(O).
C2_DifferPartition ==
    op.kind = "Update" =>
        LET D == DOMAIN op.plan.secrets
            O == DOMAIN op.prior.secrets
            toRemove == op.removed
            toAdd == (DOMAIN op.batch) \ O
        IN /\ toRemove = O \ D
           /\ toAdd \intersect toRemove = {}
           /\ (DOMAIN op.batch) \subseteq (toAdd \union (D \intersect O))
           /\ op.diffed => /\ toAdd = D \ O
                           /\ toAdd \union (D \intersect O) \union toRemove = D \union O

\* an Update that removes a key, adds a key and reaches the set step
C2_Witness ==
    /\ op.kind = "Update" /\ op.diffed
    /\ op.removed # {}
    /\ (DOMAIN op.batch) \ (DOMAIN op.prior.secrets) # {}

\* the plan of the last operation declares what prior state records: the same
\* name and org, the same keys, equal secret values
PlanEqualsState ==
    /\ op.plan.name = op.prior.name
    /\ op.plan.org = op.prior.org
    /\ DOMAIN op.plan.secrets = DOMAIN op.prior.secrets
    /\ \A k \in DOMAIN op.plan.secrets : op.plan.secrets[k].value = op.prior.secrets[k].value

\* C3: an Update whose plan equals state in name, org and every secret value
\* issues no remote call and writes the prior state.
C3_Idempotent ==
    (op.kind = "Update" /\ PlanEqualsState) => (op.calls = <<>> /\ state = op.prior)

\* such an Update, with a managed secret, while the store holds a different value
C3_Witness ==
    /\ op.kind = "Update" /\ PlanEqualsState
    /\ \E k \in DOMAIN op.prior.secrets :
          k \in DOMAIN remote /\ remote[k].value # op.prior.secrets[k].value

\* the plan of the last operation changes the name or the org of the app
ImmutableChanged ==
    \/ op.plan.name # op.prior.name
    \/ ~IsUnknown(op.plan.org) /\ op.plan.org # op.prior.org

\* C4: an Update that is asked to change the name or the org reports an error,
\* issues no remote call and leaves state unchanged.
C4_ImmutableRejected ==
    (op.kind = "Update" /\ ImmutableChanged) =>
        (op.errors # {} /\ op.calls = <<>> /\ state = op.prior)

\* C6: on a Read that fetched a snapshot, a managed key found in the snapshot
\* with another digest or another formatted created-at gets an unknown value and
\* the remote digest and created-at; with both equal its entry is unchanged.
C6_DriftDetected ==
    (op.kind = "Read" /\ op.fetched) =>
        \A k \in (DOMAIN op.prior.secrets) \intersect (DOMAIN op.snapshot) :
            LET s == op.prior.secrets[k]
                as == op.snapshot[k]
            IN /\ k \in DOMAIN state.secrets
               /\ IF as.digest # s.digest \/ FormatRFC3339(as.createdAt) # s.createdAt
                  THEN state.secrets[k] = appSecret(Unknown, as.digest, FormatRFC3339(as.createdAt))
                  ELSE state.secrets[k] = s

\* a successful Read that found one key with the digest of state and a later
\* created-at, and marked its value unknown
C6_Witness ==
    /\ op.kind = "Read" /\ op.fetched /\ op.errors = {}
    /\ \E k \in (DOMAIN op.prior.secrets) \intersect (DOMAIN op.snapshot) :
          /\ op.snapshot[k].digest = op.prior.secrets[k].digest
          /\ ~IsUnknown(op.prior.secrets[k].value)
          /\ IsUnknown(state.secrets[k].value)

\* C7: on a Read that fetched a snapshot, every managed key that is not in the
\* snapshot is dropped from state; no Read adds a key to state.
C7_MissingDropped ==
    op.kind = "Read" =>
        /\ (DOMAIN state.secrets) \subseteq (DOMAIN op.prior.secrets)
        /\ op.fetched => \A k \in (DOMAIN op.prior.secrets) \ (DOMAIN op.snapshot) :
                            k \notin DOMAIN state.secrets

\* a successful Read that dropped a key, kept another, with the app still there
C7_Witness ==
    /\ op.kind = "Read" /\ op.fetched /\ op.errors = {}
    /\ (DOMAIN op.prior.secrets) \ (DOMAIN op.snapshot) # {}
    /\ DOMAIN state.secrets # {}

FrozenAttrs == {"digest", "createdAt"}

\* C8: for the digest and created_at of every planned secret: with a prior value
\* and an unknown planned value the result is the prior value when the configured
\* secret value equals the one in state, and stays unknown when it differs; with
\* no prior value or a known planned value the planned value is returned.
C8_Freeze ==
    op.plan.valid =>
        \A k \in DOMAIN op.plan.secrets : \A a \in FrozenAttrs :
            LET prior == StateAttr(op.prior, k, a)
                planned == op.plan.proposed[k][a]
                result == op.plan.secrets[k][a]
                unchanged == op.config[k] = StateAttr(op.prior, k, "value")
            IN IF IsNull(prior) \/ ~IsUnknown(planned) THEN result = planned
               ELSE IF unchanged THEN result = prior
               ELSE IsUnknown(result)

\* a plan that pins the digest of one secret to a known prior digest and leaves
\* the digest of a secret with a changed value unknown
C8_Witness ==
    /\ op.plan.valid
    /\ \E k \in DOMAIN op.plan.secrets :
          /\ IsUnknown(op.plan.proposed[k].digest)
          /\ ~IsUnknown(op.plan.secrets[k].digest)
          /\ op.plan.secrets[k].digest = op.prior.secrets[k].digest
    /\ \E k \in (DOMAIN op.plan.secrets) \intersect (DOMAIN op.prior.secrets) :
          /\ op.config[k] # op.prior.secrets[k].value
          /\ IsUnknown(op.plan.secrets[k].digest)

\* C9: when the configured secret value is unknown, an unknown planned digest or
\* created_at is never pinned, whatever prior state holds.
C9_UnknownInputNotFrozen ==
    op.plan.valid =>
        \A k \in DOMAIN op.plan.secrets : \A a \in FrozenAttrs :
            (IsUnknown(op.config[k]) /\ IsUnknown(op.plan.proposed[k][a]))
                => IsUnknown(op.plan.secrets[k][a])

\* every declared secret is stored remotely with its declared value
RemoteMatches ==
    \A k \in DOMAIN config.secrets : k \in DOMAIN remote /\ remote[k].value = config.secrets[k]

\* state holds exactly the declared secrets, each with the remote digest
StateMatches ==
    /\ state.exists
    /\ DOMAIN state.secrets = DOMAIN config.secrets
    /\ \A k \in DOMAIN state.secrets :
          /\ state.secrets[k].value = config.secrets[k]
          /\ k \in DOMAIN remote
          /\ state.secrets[k].digest = remote[k].digest

\* an Update of the declared configuration would issue no mutation call
NoMutationNeeded ==
    LET pl == PlanResourceChange(config, state)
    IN removedSecrets(state, pl) = {} /\ DOMAIN newSecrets(state, pl) = {}

Converged == RemoteMatches /\ StateMatches /\ NoMutationNeeded

\* a managed secret was changed out of band: the store no longer holds what state
\* records for it
Drifted ==
    /\ state.exists
    /\ \E k \in DOMAIN state.secrets :
          \/ k \notin DOMAIN remote
          \/ remote[k].digest # state.secrets[k].digest
          \/ FormatRFC3339(remote[k].createdAt) # state.secrets[k].createdAt

\* C5: from every state in which a managed secret has drifted, applying the
\* unchanged configuration again and again (Read, then plan and Update) leads to
\* a state where every declared secret is stored with its declared value, state
\* holds the remote digests, and a further Update would issue no mutation call.
C5_ConvergesAfterDrift == Drifted ~> Converged

\* a converged state that was reached by a repairing Update after a Read that
\* marked a drifted value unknown
C5_Witness ==
    /\ Converged
    /\ op.kind = "Update" /\ CallsOf("SetSecrets") # {}
    /\ \E k \in DOMAIN op.prior.secrets : IsUnknown(op.prior.secrets[k].value)

NoopSet == op.setOutcome = "noop"

\* the entries setSecrets leaves for the batch after a compensating snapshot
Filled(batch, snapshot) ==
    [k \in DOMAIN batch |->
        IF k \in DOMAIN snapshot
        THEN appSecret(batch[k].value, snapshot[k].digest, FormatRFC3339(snapshot[k].createdAt))
        ELSE batch[k]]

\* C10 as stated: a SetSecrets call that reports "no change" records no error,
\* warns of drift, is followed by exactly one GetSecrets call that fills digest
\* and created-at of the batch names it finds, and Update writes these entries.
C10_NoChangeRecovered ==
    (NoopSet /\ op.errors \subseteq op.setErrors) =>
        /\ op.errors = {}
        /\ "State may have drifted" \in op.warnings
        /\ Cardinality(CallsOf("GetSecrets")) = 1
        /\ op.setResult = Filled(op.batch, op.snapshot)
        /\ \A k \in DOMAIN op.batch : Entry(state.secrets, k) = op.setResult[k]

\* C10, amended: a SetSecrets call that reports "no change" adds no error of its
\* own, warns of drift and is followed by exactly one GetSecrets call; when that
\* call succeeds it fills digest and created-at of the batch names it finds and
\* leaves their values, when it fails the error "GetSecrets failed" is recorded
\* and nothing is filled; Update writes the batch entries to state exactly when
\* the operation has recorded no error.
C10_NoChangeRecoveredUnlessReadFails ==
    NoopSet =>
        /\ op.setErrors \subseteq {"GetSecrets failed"}
        /\ "SetSecrets errored" \notin op.errors
        /\ {"SetSecrets was no-op", "State may have drifted"} \subseteq op.warnings
        /\ Cardinality(CallsOf("SetSecrets")) = 1
        /\ Cardinality(CallsOf("GetSecrets")) = 1
        /\ op.calls[Len(op.calls)].api = "GetSecrets"
        /\ op.calls[Len(op.calls) - 1].api = "SetSecrets"
        /\ IF op.setErrors = {}
           THEN op.setResult = Filled(op.batch, op.snapshot)
           ELSE op.setResult = op.batch
        /\ \A k \in DOMAIN op.batch :
              Entry(state.secrets, k) = IF op.errors = {} THEN op.setResult[k]
                                        ELSE Entry(op.prior.secrets, k)

\* an Update whose set batch was a no-op and whose compensating read gave the
\* entry a digest and a created-at that the plan did not know
C10_Witness ==
    /\ NoopSet /\ op.kind = "Update" /\ op.errors = {}
    /\ \E k \in DOMAIN op.batch :
          /\ IsUnknown(op.batch[k].digest) /\ IsUnknown(op.batch[k].createdAt)
          /\ state.secrets[k] = appSecret(op.plan.secrets[k].value, remote[k].digest,
                                          FormatRFC3339(remote[k].createdAt))

\* C11: a Read whose GetApp answers that the app could not be resolved reports
\* no error and removes the resource from state.
C11_NotFoundRemoved ==
    (op.kind = "Read" /\ ~op.fetched) => (op.errors = {} /\ ~state.exists)

\* the positions of the calls of the last operation, by api
UnsetCalls == CallsOf("UnsetSecrets")
SetCalls == CallsOf("SetSecrets")

\* C12: in an Update every UnsetSecrets call precedes every SetSecrets call, and
\* an Update whose UnsetSecrets call failed issues no SetSecrets call.
C12_UnsetBeforeSet ==
    op.kind = "Update" =>
        /\ \A i \in UnsetCalls : \A j \in SetCalls : i < j
        /\ "UnsetSecrets failed" \in op.errors => SetCalls = {}

\* an Update that removed one secret and then set another
C12_Witness ==
    /\ op.kind = "Update" /\ op.errors = {}
    /\ UnsetCalls # {} /\ SetCalls # {}

\* an Update whose UnsetSecrets call failed while the plan held a secret to set
UnsetFailedBeforeSet ==
    /\ op.kind = "Update"
    /\ "UnsetSecrets failed" \in op.errors
    /\ DOMAIN newSecrets(op.prior, op.plan) # {}

\* the keys of prior state that the plan does not declare
ToRemove == (DOMAIN op.prior.secrets) \ (DOMAIN op.plan.secrets)

\* the planned keys that are new or whose planned value differs from the state's
ToSet ==
    {k \in DOMAIN op.plan.secrets :
        k \notin DOMAIN op.prior.secrets
        \/ op.prior.secrets[k].value # op.plan.secrets[k].value}

\* C13: an Update issues at most one UnsetSecrets call, with exactly the keys to
\* remove, and at most one SetSecrets call, with exactly the new and changed keys
\* and their declared values; neither call is issued for an empty batch.
C13_OneBatchEach ==
    op.kind = "Update" =>
        /\ Cardinality(UnsetCalls) <= 1
        /\ Cardinality(SetCalls) <= 1
        /\ \A i \in UnsetCalls : op.calls[i].keys = ToRemove /\ ToRemove # {}
        /\ \A i \in SetCalls :
              /\ op.calls[i].keys = ToSet /\ ToSet # {}
              /\ op.calls[i].values = [k \in ToSet |-> op.config[k]]

\* an Update that removed a key and whose SetSecrets call for a new key failed
C13_Witness ==
    /\ op.kind = "Update" /\ op.setOutcome = "error"
    /\ UnsetCalls # {} /\ SetCalls # {}
    /\ ToSet \ (DOMAIN op.prior.secrets) # {}

\* C14: when the SetSecrets call of an Update fails, or its compensating read
\* does, the written state holds for every key of the set batch what prior state
\* held: no new key, no changed value, digest or created-at.
C14_FailedSetNotApplied ==
    (op.kind = "Update" /\ SetCalls # {} /\ op.setErrors # {}) =>
        \A k \in DOMAIN op.batch : Entry(state.secrets, k) = Entry(op.prior.secrets, k)

\* an Update whose SetSecrets call for a new key and a changed key failed
C14_Witness ==
    /\ op.kind = "Update" /\ op.setOutcome = "error"
    /\ (DOMAIN op.batch) \ (DOMAIN op.prior.secrets) # {}
    /\ (DOMAIN op.batch) \intersect (DOMAIN op.prior.secrets) # {}

\* the last operation is an Update whose UnsetSecrets call succeeded and whose
\* SetSecrets call then failed
SetFailedAfterUnset ==
    /\ op.kind = "Update"
    /\ UnsetCalls # {} /\ "UnsetSecrets failed" \notin op.errors
    /\ SetCalls # {} /\ op.setErrors # {}

\* C15: when UnsetSecrets succeeded and the following SetSecrets failed, the
\* removed keys are absent from the written state, no SetSecrets batch names
\* them, the store no longer holds them, and the Update ends with an error.
C15_PartialProgressKept ==
    SetFailedAfterUnset =>
        /\ ToRemove \intersect (DOMAIN state.secrets) = {}
        /\ \A i \in SetCalls : op.calls[i].keys \intersect ToRemove = {}
        /\ ToRemove \intersect (DOMAIN remote) = {}
        /\ op.errors # {}

\* such an Update, which had removed a key that the store held
C15_Witness ==
    /\ SetFailedAfterUnset /\ op.setOutcome = "error"
    /\ ToRemove \intersect (DOMAIN op.storedBefore) # {}

\* C16: after an Update without error every key of prior state that the plan
\* does not declare was sent in the UnsetSecrets batch and is absent from the
\* written state, whose keys are exactly the keys of the plan.
C16_RemovedUnsetAndDropped ==
    (op.kind = "Update" /\ op.errors = {}) =>
        /\ \A k \in ToRemove :
              /\ \E i \in UnsetCalls : k \in op.calls[i].keys
              /\ k \notin DOMAIN state.secrets
        /\ DOMAIN state.secrets = DOMAIN op.plan.secrets

\* a successful Update that removed a key which the store held and kept another
C16_Witness ==
    /\ op.kind = "Update" /\ op.errors = {}
    /\ ToRemove \intersect (DOMAIN op.storedBefore) # {}
    /\ ToRemove \intersect (DOMAIN remote) = {}
    /\ DOMAIN state.secrets # {}

\* a state entry records the digest and the created-at of a stored secret
InSync(entry, stored) ==
    /\ entry.digest = stored.digest
    /\ entry.createdAt = FormatRFC3339(stored.createdAt)

\* C17: after a Create or Update without error whose SetSecrets call wrote, every
\* secret of state that was in the batch, or that recorded the store's digest and
\* created-at before the operation, records the digest and created-at the store
\* holds for its name now.
C17_DigestMatchesRemote ==
    (op.kind \in {"Create", "Update"} /\ op.errors = {} /\ op.setOutcome = "set") =>
        \A k \in DOMAIN state.secrets :
            (\/ k \in DOMAIN op.batch
             \/ /\ k \in (DOMAIN op.prior.secrets) \intersect (DOMAIN op.storedBefore)
                /\ InSync(op.prior.secrets[k], op.storedBefore[k]))
            => (k \in DOMAIN remote /\ InSync(state.secrets[k], remote[k]))

\* an Update that changed the value of one secret, whose digest in state changed
\* with it, and left another secret alone
C17_Witness ==
    /\ op.kind = "Update" /\ op.errors = {} /\ op.setOutcome = "set"
    /\ \E k \in (DOMAIN op.batch) \intersect (DOMAIN op.prior.secrets) :
          /\ ~IsUnknown(op.prior.secrets[k].value)
          /\ state.secrets[k].digest # op.prior.secrets[k].digest
          /\ state.secrets[k].digest = remote[k].digest
    /\ (DOMAIN state.secrets) \ (DOMAIN op.batch) # {}

OrgErrors == {"Could not detect default organization", "Could not resolve organization"}

\* C18: Create calls the organization lookup, then CreateApp, then, only for a
\* non-empty secret map, one SetSecrets with every declared secret; a failed
\* lookup or a failed CreateApp ends the calls and leaves the resource untracked;
\* after a Create without error every declared key is in state with the digest
\* the SetSecrets response returned for it.
C18_CreateOrder ==
    op.kind = "Create" =>
        /\ Len(op.calls) >= 1 /\ op.calls[1].api \in {"GetDefaultOrg", "Organization"}
        /\ Len(op.calls) >= 2 => op.calls[2].api = "CreateApp"
        /\ \A i \in 3..Len(op.calls) : op.calls[i].api \in {"SetSecrets", "GetSecrets"}
        /\ \A i \in SetCalls :
              /\ i = 3
              /\ op.calls[i].keys = DOMAIN op.plan.secrets
              /\ op.calls[i].values = op.config
        /\ DOMAIN op.plan.secrets = {} => SetCalls = {}
        /\ op.errors \intersect OrgErrors # {} => (Len(op.calls) = 1 /\ ~state.exists)
        /\ "Create app failed" \in op.errors => (Len(op.calls) = 2 /\ ~state.exists)
        /\ op.errors = {} =>
              /\ state.exists
              /\ DOMAIN op.plan.secrets # {} => Cardinality(SetCalls) = 1
              /\ \A k \in DOMAIN op.plan.secrets :
                    /\ k \in DOMAIN state.secrets
                    /\ k \in DOMAIN op.snapshot
                    /\ state.secrets[k].value = op.config[k]
                    /\ state.secrets[k].digest = op.snapshot[k].digest

\* a Create without error that set two secrets
C18_Witness ==
    /\ op.kind = "Create" /\ op.errors = {}
    /\ Len(op.calls) = 3 /\ op.calls[3].api = "SetSecrets"
    /\ DOMAIN state.secrets = Keys

\* a Create whose CreateApp call failed while the plan declared secrets
CreateFailedBeforeSet ==
    /\ op.kind = "Create" /\ "Create app failed" \in op.errors
    /\ DOMAIN op.plan.secrets # {}

\* C19: a Delete issues exactly one remote call, the deletion of the app named
\* in state, and no UnsetSecrets call; after a Delete without error the resource
\* is not tracked.
C19_DeleteOnlyApp ==
    op.kind = "Delete" =>
        /\ Len(op.calls) = 1
        /\ op.calls[1] = Call("DeleteApp", ValueString(op.prior.name), {}, EmptyMap)
        /\ UnsetCalls = {}
        /\ op.errors = {} => ~state.exists

\* a Delete without error of an app whose state and store held secrets
C19_Witness ==
    /\ op.kind = "Delete" /\ op.errors = {}
    /\ DOMAIN op.prior.secrets # {}
    /\ DOMAIN op.storedBefore # {}
    /\ ~remoteApp.exists

\* the entity of the control plane that an imported state designates: it agrees
\* with every attribute the import bound
Designates(imported, e) ==
    /\ e.kind = imported.kind
    /\ \A a \in {"id", "app", "key"} : ~IsNull(imported[a]) => imported[a] = e[a]

QueryOf(kind) ==
    CASE kind = "volume" -> "VolumeQuery"
      [] kind = "ip" -> "IpAddressQuery"
      [] kind = "cert" -> "GetCertificate"

\* the Read that follows the import of a volume, ip or cert looks the entity up
\* by attributes the import bound, and when the control plane holds the imported
\* entity the Read queries it and fills the other attributes from it
ImportHydrates(kind) ==
    (cop.kind = "Read" /\ cop.afterImport /\ cop.resource = kind /\ cop.fault = "none") =>
        /\ ~IsNull(cop.prior.app) /\ ~IsNull(cop.prior.key)
        /\ \A e \in entities :
              Designates(cop.prior, e) =>
                  /\ cop.errors = {}
                  /\ cop.calls = <<ChildCall(QueryOf(kind), e.app, e.key)>>
                  /\ tracked = ChildFromQuery(kind, e.app, e)

\* the same for the app, which is looked up by name
ImportHydratesApp ==
    (op.kind = "Read" /\ op.prior.exists /\ IsNull(op.prior.org)) =>
        /\ ~IsNull(op.prior.name)
        /\ op.calls = <<Call("GetApp", op.prior.name, {}, EmptyMap)>>
        /\ RemoteHasApp(remoteApp, op.prior.name) =>
              (op.errors = {} /\ state.name = remoteApp.name /\ state.org = remoteApp.org)

\* C20: for the app, the volume, the ip and the cert resource, the Read that
\* follows ImportState looks the remote entity up by the attributes ImportState
\* bound from the identifier, so that it queries the imported entity and fills
\* the remaining attributes.
C20_ImportThenRead ==
    /\ ImportHydratesApp
    /\ \A kind \in ChildKinds : ImportHydrates(kind)

\* C21: on a successful SetSecrets response the fill loop of setSecrets gives the
\* same map, the one setSecrets returned, for every order of the response list;
\* the map keeps exactly the names of the batch; each of them keeps its declared
\* value and takes digest and formatted created-at of the response entry of its
\* name.
C21_FillByName ==
    op.setOutcome = "set" =>
        /\ \A o \in Orderings(op.snapshot) :
              fillLoop(op.batch, SecretList(op.snapshot, o)) = op.setResult
        /\ DOMAIN op.setResult = DOMAIN op.batch
        /\ \A k \in DOMAIN op.batch :
              /\ k \in DOMAIN op.snapshot
              /\ op.setResult[k] = appSecret(op.batch[k].value, op.snapshot[k].digest,
                                            FormatRFC3339(op.snapshot[k].createdAt))

\* a successful SetSecrets for one name whose response listed two secrets, the
\* other one outside the batch, and filled an unknown digest
C21_Witness ==
    /\ op.setOutcome = "set"
    /\ Cardinality(DOMAIN op.snapshot) = 2
    /\ (DOMAIN op.snapshot) \ (DOMAIN op.batch) # {}
    /\ \E k \in DOMAIN op.batch :
          IsUnknown(op.batch[k].digest) /\ ~IsUnknown(op.setResult[k].digest)

\* the keys of plan and prior state with equal values
Unchanged ==
    {k \in (DOMAIN op.plan.secrets) \intersect (DOMAIN op.prior.secrets) :
        op.plan.secrets[k].value = op.prior.secrets[k].value}

\* C22: in an Update a key of plan and state whose planned value equals the value
\* in state is in no set batch and no SetSecrets call, whatever digest and
\* created-at state and the remote store hold for it.
C22_DifferComparesValues ==
    op.kind = "Update" =>
        \A k \in Unchanged :
            /\ k \notin DOMAIN op.batch
            /\ \A i \in SetCalls : k \notin op.calls[i].keys

\* an Update that set one key and left alone a key with an unchanged value whose
\* digest in the store was no longer the one state recorded
C22_Witness ==
    /\ op.kind = "Update" /\ SetCalls # {}
    /\ \E k \in Unchanged :
          /\ k \in DOMAIN op.storedBefore
          /\ op.storedBefore[k].digest # op.prior.secrets[k].digest

\* an Update that left alone a key with an unchanged value whose digest in state
\* was not known
UnchangedWithUnknownDigest ==
    /\ op.kind = "Update"
    /\ \E k \in Unchanged : IsUnknown(op.prior.secrets[k].digest)

\* C23: a Read of the fly_app_secret resource that fetched a secret list without
\* the secret's name removes the secret from state.
C23_AbsentSecretDropped ==
    (sop.kind = "Read" /\ sop.fetched /\ ValueString(sop.prior.name) \notin DOMAIN sop.snapshot)
        => ~secret.exists

\* C24: a Read of the fly_app_secret resource whose GetSecrets call fails with
\* exactly one remote error, of code NOT_FOUND, removes the resource from state,
\* reports no error and ends normally.
C24_AppMissingRemoved ==
    (sop.kind = "Read" /\ sop.fault = "none"
        /\ ~RemoteHasApp(remoteApp, ValueString(sop.prior.appId)))
        => (~secret.exists /\ sop.errors = {} /\ ~sop.panicked)

\* the planned data of the last operation has an unknown id, digest and created-at
PlannedUnknown == IsUnknown(sop.plan.id) /\ IsUnknown(sop.plan.digest) /\ IsUnknown(sop.plan.createdAt)

\* C25: a Create or Update of the fly_app_secret resource whose SetSecret call
\* failed, or whose response lacked the secret's name, responds with an error and
\* does not write the planned data with its unknown id, digest and created-at.
C25_FailedSetReported ==
    (sop.kind \in {"Create", "Update"} /\ sop.failed) =>
        /\ sop.errors # {}
        /\ PlannedUnknown => secret # sop.plan

\* C26: an Update of a volume, ip or cert ends with an error, issues no remote
\* call and leaves tracked state as it was, whatever the plan and the state are.
C26_UpdateRejected ==
    cop.kind = "Update" =>
        /\ cop.resource \in ChildKinds
        /\ cop.errors # {}
        /\ cop.calls = <<>>
        /\ tracked = cop.prior

\* an Update of a volume the control plane holds, planned for another app
C26_Witness ==
    /\ cop.kind = "Update" /\ cop.resource = "volume"
    /\ cop.prior.id = "vol_1"
    /\ cop.plan.app # cop.prior.app

\* an Update of a resource of that kind whose plan has unknown computed attributes
UpdateOfKind(kind) ==
    cop.kind = "Update" /\ cop.resource = kind /\ IsUnknown(cop.plan.id)

\* the remote creation call of the last Create of a volume, ip or cert failed
ChildCreateFailed ==
    /\ cop.kind = "Create"
    /\ \/ cop.fault # "none"
       \/ ~RemoteHasApp(remoteApp, cop.plan.app)
       \/ cop.errors # {}

\* C29: a Create of a volume, ip or cert whose remote creation call failed
\* reports the error and writes no state: the resource is not tracked.
C29_FailedCreateUntracked ==
    ChildCreateFailed => (cop.errors # {} /\ ~tracked.exists)

\* C30: a Delete of the app, the app-secret, a volume, an ip or a cert leaves the
\* resource untracked whether the remote deletion call succeeded or failed, a
\* failed call is reported as an error, and the Delete of a volume or an ip
\* issues its remote call only when the id of state is known, not null and not
\* empty.
C30_DeleteAlwaysRemoves ==
    /\ op.kind = "Delete" =>
          /\ ~state.exists
          /\ RemoteHasApp(remoteApp, ValueString(op.prior.name)) => op.errors # {}
    /\ sop.kind = "Delete" =>
          /\ ~secret.exists
          /\ sop.fault # "none" => sop.errors # {}
    /\ cop.kind = "Delete" =>
          /\ ~tracked.exists
          /\ (cop.fault # "none" /\ cop.calls # <<>>) => cop.errors # {}
          /\ cop.resource \in {"volume", "ip"} =>
                (cop.calls # <<>> =>
                    (~IsUnknown(cop.prior.id) /\ ~IsNull(cop.prior.id) /\ cop.prior.id # ""))

\* a Delete of a volume whose remote call failed: the error is reported and the
\* volume is untracked while the control plane still holds it
C30_Witness ==
    /\ cop.kind = "Delete" /\ cop.resource = "volume"
    /\ cop.errors # {}
    /\ ~tracked.exists
    /\ \E e \in entities : e.kind = "volume" /\ e.id = cop.prior.id

\* a Delete of a volume or ip with an empty or null id, which issued no call
DeleteWithoutId ==
    /\ cop.kind = "Delete" /\ cop.resource \in {"volume", "ip"}
    /\ cop.prior.id \in {"", Null}
    /\ cop.calls = <<>>

\* a Delete of the app or of the app-secret whose remote call failed
DeleteFailedElsewhere(which) ==
    \/ which = "app" /\ op.kind = "Delete" /\ op.errors # {} /\ remoteApp.exists
    \/ which = "secret" /\ sop.kind = "Delete" /\ sop.errors # {} /\ "A" \in DOMAIN remote
    \/ which = "cert" /\ cop.kind = "Delete" /\ cop.resource = "cert" /\ cop.errors # {}

\* C27: after a Create, Read or Update of the app every secret of tracked state
\* has a known digest and a known created-at.
C27_NoUnknownDigest ==
    (op.kind \in {"Create", "Read", "Update"} /\ state.exists) =>
        \A k \in DOMAIN state.secrets :
            ~IsUnknown(state.secrets[k].digest) /\ ~IsUnknown(state.secrets[k].createdAt)

\* C28: a Read of the app whose query failed with an error other than not-found,
\* which it reports, leaves tracked state as it was: name and org are not
\* overwritten and no secret is dropped.
C28_FailedReadKeepsState ==
    (op.kind = "Read" /\ op.fetched /\ op.errors # {}) => state = op.prior

====
